---------------------------- MODULE Spec2Model ----------------------------
(***************************************************************************)
(* Local Timesheet (src/app.js): the store (state, localStorage snapshot,  *)
(* entry form, pending file imports) and the calculator (time arithmetic   *)
(* and the totals render() shows).                                         *)
(*                                                                         *)
(* JavaScript strings are sequences of one-character strings, so trim(),   *)
(* split(":"), Number() and padStart() are computed character by           *)
(* character.  A JavaScript value is a record [t, v]: t is its type and v  *)
(* its characters (a number is held by its decimal digits, the only array  *)
(* modelled is the empty one).  A double is held exactly, as the bits of   *)
(* a fixed-point binary number, and rounded to 53 significant bits after   *)
(* every arithmetic operation, as IEEE 754 round-to-nearest-even does.     *)
(***************************************************************************)
EXTENDS Integers, Sequences, FiniteSets, TLC

VARIABLES state, storage, form, pending, last, view, uidCount, calc

vars == <<state, storage, form, pending, last, view, uidCount, calc>>

(***************************************************************************)
(* JavaScript values                                                       *)
(***************************************************************************)
Str(s) == [t |-> "str", v |-> s]
Num(digits) == [t |-> "num", v |-> digits]
EmptyArray == [t |-> "arr", v |-> <<>>]
Undef == [t |-> "undef", v |-> <<>>]
Null == [t |-> "null", v |-> <<"n", "u", "l", "l">>]
Infinity == Num(<<"I", "n", "f", "i", "n", "i", "t", "y">>)

\* ToBoolean: "", 0, null and undefined are falsy; any array is truthy.
Truthy(x) ==
  CASE x.t = "str" -> x.v # <<>>
    [] x.t = "num" -> x.v # <<"0">>
    [] x.t = "arr" -> TRUE
    [] OTHER -> FALSE

\* String(x) of a truthy x: a string is itself, a number its digits, and
\* an array its elements joined by "," (nothing for the empty array).
String(x) == Str(x.v)

\* x || y
OrElse(x, y) == IF Truthy(x) THEN x ELSE y

IsWhite(c) == c = " "

RECURSIVE TrimStart(_)
TrimStart(s) ==
  IF s # <<>> /\ IsWhite(Head(s)) THEN TrimStart(Tail(s)) ELSE s

RECURSIVE TrimEnd(_)
TrimEnd(s) ==
  IF s # <<>> /\ IsWhite(s[Len(s)]) THEN TrimEnd(SubSeq(s, 1, Len(s) - 1)) ELSE s

\* A trim that leaves the string as it is.
Untrimmed(s) == s

\* String.prototype.trim
Trim(s) == TrimEnd(TrimStart(s))

Digits == <<"0", "1", "2", "3", "4", "5", "6", "7", "8", "9">>

DigitValue(c) == CHOOSE d \in 0..9 : Digits[d + 1] = c

\* Number(s) of a string of decimal digits ("09" is 9, "" is 0).
RECURSIVE Number(_)
Number(s) ==
  IF s = <<>> THEN 0
  ELSE 10 * Number(SubSeq(s, 1, Len(s) - 1)) + DigitValue(s[Len(s)])

\* String(n) of a natural number.
RECURSIVE NatString(_)
NatString(n) ==
  IF n < 10 THEN <<Digits[n + 1]>>
  ELSE NatString(n \div 10) \o <<Digits[(n % 10) + 1]>>

RECURSIVE PadStart(_, _, _)
\* s.padStart(n, c) for a one-character filler c.
PadStart(s, n, c) == IF Len(s) >= n THEN s ELSE PadStart(<<c>> \o s, n, c)

pad2(n) == PadStart(NatString(n), 2, "0")

RECURSIVE Split(_, _)
\* s.split(sep) for a one-character separator.
Split(s, sep) ==
  IF \A i \in 1..Len(s) : s[i] # sep THEN <<s>>
  ELSE LET k == CHOOSE i \in 1..Len(s) : s[i] = sep /\ \A j \in 1..(i - 1) : s[j] # sep
       IN <<SubSeq(s, 1, k - 1)>> \o Split(SubSeq(s, k + 1, Len(s)), sep)

(***************************************************************************)
(* Doubles.  A non-negative double is held exactly, as a fixed-point       *)
(* binary number of Limbs limbs of LimbBits bits each, lowest limb first:  *)
(* the first FracLimbs limbs are the 60 bits after the point.  Every       *)
(* double the program computes is 0 or at least 1/60, and below 2^30, so   *)
(* its 53 significant bits never reach below 2^-58 and the representation  *)
(* loses nothing.  Bit positions count from 0 at the lowest bit.           *)
(***************************************************************************)
LimbBits == 5 * 3
FracLimbs == 2 + 2
Limbs == FracLimbs + 2
Base == 2 ^ LimbBits
\* A double has 53 significant bits.
Mantissa == 52 + 1

Pow2(k) == 2 ^ k

Bit(x, p) == (x[(p \div LimbBits) + 1] \div Pow2(p % LimbBits)) % 2

\* The integer n (below Base * Base) as a double.
FromInt(n) ==
  [j \in 1..Limbs |->
     IF j = FracLimbs + 1 THEN n % Base
     ELSE IF j = FracLimbs + 2 THEN n \div Base
     ELSE 0]

\* Math.floor of a double, as an integer.
IntPart(x) == x[FracLimbs + 1] + Base * x[FracLimbs + 2]

RECURSIVE AddFrom(_, _, _, _)
AddFrom(a, b, j, c) ==
  IF j > Limbs THEN <<>>
  ELSE LET s == a[j] + b[j] + c
       IN <<s % Base>> \o AddFrom(a, b, j + 1, s \div Base)

\* The exact sum of two fixed-point numbers.
ExactAdd(a, b) == AddFrom(a, b, 1, 0)

RECURSIVE ShiftFrom(_, _, _, _)
ShiftFrom(x, k, j, c) ==
  IF j > Limbs THEN <<>>
  ELSE LET s == x[j] * Pow2(k) + c
       IN <<s % Base>> \o ShiftFrom(x, k, j + 1, s \div Base)

\* x * 2^k exactly, for k < LimbBits.
ShiftLeft(x, k) == ShiftFrom(x, k, 1, 0)

\* The position of the highest set bit, -1 for zero.
TopBit(x) ==
  IF \A j \in 1..Limbs : x[j] = 0 THEN -1
  ELSE LET j == CHOOSE i \in 1..Limbs : x[i] # 0 /\ \A m \in (i + 1)..Limbs : x[m] = 0
           k == CHOOSE i \in 0..(LimbBits - 1) : Pow2(i) <= x[j] /\ x[j] < Pow2(i + 1)
       IN (j - 1) * LimbBits + k

\* x with its bits below position cut cleared.
RECURSIVE ClearFrom(_, _, _)
ClearFrom(x, cut, j) ==
  IF j > Limbs THEN <<>>
  ELSE LET lo == (j - 1) * LimbBits
           limb == IF lo >= cut THEN x[j]
                   ELSE IF lo + LimbBits <= cut THEN 0
                   ELSE (x[j] \div Pow2(cut - lo)) * Pow2(cut - lo)
       IN <<limb>> \o ClearFrom(x, cut, j + 1)

ClearBelow(x, cut) == ClearFrom(x, cut, 1)

\* 2^cut in the fixed-point form (the unit in the last kept place).
UnitAt(cut) ==
  [j \in 1..Limbs |-> IF j = (cut \div LimbBits) + 1 THEN Pow2(cut % LimbBits) ELSE 0]

\* The operators below take "CHOOSE r \in {F(x) : x \in {e}} : TRUE" for
\* F(e): the same value, with e evaluated once instead of once for every
\* use of it in F.

RoundBits(x) ==
  LET cut == TopBit(x) + 1 - Mantissa
  IN IF cut <= 0 THEN x
     ELSE LET guard == Bit(x, cut - 1)
              sticky == \E p \in 0..(cut - 2) : Bit(x, p) = 1
              odd == Bit(x, cut) = 1
              kept == ClearBelow(x, cut)
          IN IF guard = 1 /\ (sticky \/ odd) THEN ExactAdd(kept, UnitAt(cut)) ELSE kept

\* IEEE 754 round-to-nearest, ties-to-even, to Mantissa significant bits.
RoundNearestEven(e) == CHOOSE r \in {RoundBits(x) : x \in {e}} : TRUE

\* a + b on doubles
FAdd(a, b) == CHOOSE r \in {RoundNearestEven(ExactAdd(x, y)) : x \in {a}, y \in {b}} : TRUE

\* a * 100 on doubles: 100 = 64 + 32 + 4
FMul100(a) ==
  CHOOSE r \in {RoundNearestEven(ExactAdd(ShiftLeft(x, 6),
                                          ExactAdd(ShiftLeft(x, 5), ShiftLeft(x, 2)))) :
                x \in {a}} : TRUE

\* The first k limbs after the point of r / d (r < d), lowest limb first.
RECURSIVE FracLimbsOf(_, _, _)
FracLimbsOf(r, d, k) ==
  IF k = 0 THEN <<>>
  ELSE FracLimbsOf((r * Base) % d, d, k - 1) \o <<(r * Base) \div d>>

RECURSIVE FracRest(_, _, _)
FracRest(r, d, k) == IF k = 0 THEN r ELSE FracRest((r * Base) % d, d, k - 1)

\* n / d on doubles, for integers 0 <= n and 0 < d: the quotient to
\* FracLimbs limbs after the point, what is left of it kept in the lowest
\* bit (it lies below the rounding position), then rounded.
FDiv(n, d) ==
  LET frac == FracLimbsOf(n % d, d, FracLimbs)
      rest == FracRest(n % d, d, FracLimbs)
      low == IF rest # 0 /\ frac[1] % 2 = 0 THEN frac[1] + 1 ELSE frac[1]
      whole == n \div d
  IN RoundNearestEven(<<low>> \o Tail(frac) \o <<whole % Base, whole \div Base>>)

FZero == FromInt(0)

\* Math.round of a non-negative double: floor(x + 0.5), as an integer.
MathRound(x) == IntPart(x) + Bit(x, FracLimbs * LimbBits - 1)

(***************************************************************************)
(* Calculator                                                              *)
(***************************************************************************)
\* Returns minutes from 00:00 for "HH:MM"
timeToMinutes(t) ==
  LET parts == Split(t, ":")
      hh == Number(parts[1])
      mm == Number(parts[2])
  IN hh * 60 + mm

\* A difference that is carried over midnight also when the times are equal.
computeDiffFullDay(timeIn, timeOut) ==
  LET diff == timeToMinutes(timeOut) - timeToMinutes(timeIn)
  IN IF diff <= 0 THEN diff + 24 * 60 ELSE diff

\* The local diff of computeHours, in minutes.
computeDiff(timeIn, timeOut) ==
  LET inMin == timeToMinutes(timeIn)
      outMin == timeToMinutes(timeOut)
      diff == outMin - inMin
  IN IF diff < 0 THEN diff + 24 * 60 ELSE diff

\* Handles crossing midnight: if out < in, assume next day
computeHours(timeIn, timeOut) == FDiv(computeDiff(timeIn, timeOut), 60)

\* (Math.round(h * 100) / 100).toFixed(2): the rounded hundredths, printed
\* with two decimals.
hoursToFixed(h) ==
  CHOOSE r \in {NatString(n \div 100) \o <<".">> \o PadStart(NatString(n % 100), 2, "0") :
                n \in {MathRound(FMul100(h))}} : TRUE

(***************************************************************************)
(* Entries and the document                                                *)
(***************************************************************************)
Monday == <<"M", "o", "n", "d", "a", "y">>
Tuesday == <<"T", "u", "e", "s", "d", "a", "y">>
Wednesday == <<"W", "e", "d", "n", "e", "s", "d", "a", "y">>
Thursday == <<"T", "h", "u", "r", "s", "d", "a", "y">>
Friday == <<"F", "r", "i", "d", "a", "y">>
Saturday == <<"S", "a", "t", "u", "r", "d", "a", "y">>
Sunday == <<"S", "u", "n", "d", "a", "y">>

DAYS == <<Monday, Tuesday, Wednesday, Thursday, Friday, Saturday, Sunday>>

\* DAYS.includes(x): strict equality with one of the seven strings.
DaysIncludes(x) == \E i \in 1..Len(DAYS) : x = Str(DAYS[i])

\* The keys of an entry, in the order addEntry and the import write them.
Keys == <<"id", "employee", "day", "timeIn", "timeOut", "notes", "createdAt">>

Entry(id, employee, day, timeIn, timeOut, notes, createdAt) ==
  [id |-> id, employee |-> employee, day |-> day, timeIn |-> timeIn,
   timeOut |-> timeOut, notes |-> notes, createdAt |-> createdAt]

\* A removal that removes nothing.
KeepAll(entries, id) == entries

\* state.entries.filter(e => e.id !== id)
RemoveId(entries, id) == SelectSeq(entries, LAMBDA e : e.id # id)

\* state.entries.find(e => e.id === id): the index of the first match, 0
\* for undefined.
FindId(entries, id) ==
  IF \A i \in 1..Len(entries) : entries[i].id # id THEN 0
  ELSE CHOOSE i \in 1..Len(entries) :
         entries[i].id = id /\ \A j \in 1..(i - 1) : entries[j].id # id

(***************************************************************************)
(* JSON text.  A text is [kind, items]: "none" is no stored item,          *)
(* "garbage" does not parse, "null" is the JSON null, "noentries" an       *)
(* object without an entries key, "notarray" an object whose entries is a  *)
(* string, and "doc" an object whose entries is the array items.  An item  *)
(* is a JSON object: the sequence of its key/value pairs.                  *)
(***************************************************************************)
Text(kind, items) == [kind |-> kind, items |-> items]

Pair(k, val) == [k |-> k, val |-> val]

\* JSON.stringify of a value: a number that is not finite becomes null.
StringifyValue(x) == IF x = Infinity THEN Null ELSE x

RECURSIVE StringifyFrom(_, _)
StringifyFrom(e, i) ==
  IF i > Len(Keys) THEN <<>>
  ELSE (IF e[Keys[i]] = Undef THEN <<>>
        ELSE <<Pair(Keys[i], StringifyValue(e[Keys[i]]))>>)
       \o StringifyFrom(e, i + 1)

\* JSON.stringify of an entry: its defined properties, in key order.
StringifyEntry(e) == StringifyFrom(e, 1)

\* JSON.stringify(state)
Stringify(st) ==
  Text("doc", [i \in 1..Len(st.entries) |-> StringifyEntry(st.entries[i])])

\* The property k of a parsed JSON object: the last pair with that key,
\* undefined without one.
Property(obj, k) ==
  IF \A i \in 1..Len(obj) : obj[i].k # k THEN Undef
  ELSE obj[CHOOSE i \in 1..Len(obj) :
             obj[i].k = k /\ \A j \in (i + 1)..Len(obj) : obj[j].k # k].val

\* JSON.parse of a value.  A number in a text is its literal, digits with
\* an optional exponent after "e"; a literal beyond the largest double
\* (about 1.8e308) parses to Infinity.
ParseValue(val) ==
  IF val.t # "num" THEN val
  ELSE LET parts == Split(val.v, "e")
       IN IF Len(parts) = 2 /\ Number(parts[1]) # 0
             /\ Number(parts[2]) + Len(parts[1]) - 1 > 308
          THEN Infinity
          ELSE val

ParseEntry(obj) ==
  [k \in {Keys[i] : i \in 1..Len(Keys)} |-> ParseValue(Property(obj, k))]

\* JSON.parse(text) throws a SyntaxError.
ParseThrows(text) == text.kind = "garbage"

\* Reading parsed.entries throws a TypeError (parsed is null).
EntriesThrows(text) == text.kind = "null"

\* !parsed.entries || !Array.isArray(parsed.entries)
NoEntriesArray(text) == text.kind \in {"noentries", "notarray"}

\* parsed.entries of a text that holds an entries array.
ParsedEntries(text) == [i \in 1..Len(text.items) |-> ParseEntry(text.items[i])]

EmptyState == [entries |-> <<>>]

loadState(raw) ==
  IF raw.kind = "none" THEN EmptyState
  ELSE IF ParseThrows(raw) \/ EntriesThrows(raw) THEN EmptyState
  ELSE IF NoEntriesArray(raw) THEN EmptyState
  ELSE [entries |-> ParsedEntries(raw)]

\* localStorage.setItem(STORAGE_KEY, JSON.stringify(state))
saveState(st) == Stringify(st)

(***************************************************************************)
(* render().  The page is held by what render() built it from: view is     *)
(* [rendered, days, weeklyOf], the entries the day sections were built     *)
(* from, the number of day sections appended to daysContainer (seven       *)
(* unless render() threw) and the entries the text of weeklyTotal was      *)
(* computed from.  PageDays and PageWeekly are the page's text.            *)
(***************************************************************************)
IsString(x) == x.t = "str"

\* computeHours(entry.timeIn, entry.timeOut) throws a TypeError: split is
\* no method of a value that is not a string.
HoursThrow(e) == ~IsString(e.timeIn) \/ ~IsString(e.timeOut)

EntryHours(e) == computeHours(e.timeIn.v, e.timeOut.v)

\* state.entries.filter(e => e.day === day)
DayEntries(entries, day) == SelectSeq(entries, LAMBDA e : e.day = Str(day))

\* dayTotal = 0, then dayTotal += h for each entry of the day, in order.
RECURSIVE SumHours(_, _)
SumHours(es, acc) ==
  IF es = <<>> THEN acc ELSE SumHours(Tail(es), FAdd(acc, EntryHours(Head(es))))

DayTotal(entries, day) == SumHours(DayEntries(entries, day), FZero)

\* weekly = 0, then weekly += dayTotal for each day of DAYS, in order.
RECURSIVE WeeklyFrom(_, _, _)
WeeklyFrom(entries, i, acc) ==
  IF i > Len(DAYS) THEN acc
  ELSE WeeklyFrom(entries, i + 1, FAdd(acc, DayTotal(entries, DAYS[i])))

WeeklyTotal(entries) == WeeklyFrom(entries, 1, FZero)

DayThrows(entries, day) ==
  \E i \in 1..Len(entries) : entries[i].day = Str(day) /\ HoursThrow(entries[i])

RenderThrows(entries) == \E i \in 1..Len(DAYS) : DayThrows(entries, DAYS[i])

\* The days render() appends before it throws: all seven when it does not.
DaysRendered(entries) ==
  IF RenderThrows(entries)
  THEN (CHOOSE i \in 1..Len(DAYS) :
          DayThrows(entries, DAYS[i]) /\ \A j \in 1..(i - 1) : ~DayThrows(entries, DAYS[j])) - 1
  ELSE Len(DAYS)

render(st, old) ==
  [rendered |-> st.entries,
   days |-> DaysRendered(st.entries),
   weeklyOf |-> IF RenderThrows(st.entries) THEN old.weeklyOf ELSE st.entries]

\* One day section of the page: its title, its rows (the id the row's edit
\* and delete buttons carry, and the hours cell) and its total.
DayNode(entries, day) ==
  LET es == DayEntries(entries, day)
  IN [title |-> day,
      rows |-> [i \in 1..Len(es) |-> [id |-> es[i].id, hrs |-> hoursToFixed(EntryHours(es[i]))]],
      total |-> hoursToFixed(DayTotal(entries, day))]

PageDays(v) == [i \in 1..v.days |-> DayNode(v.rendered, DAYS[i])]

PageWeekly(v) == hoursToFixed(WeeklyTotal(v.weeklyOf))

\* The ids the edit and delete buttons on the page carry.
RenderedIds(v) ==
  {v.rendered[i].id : i \in {k \in 1..Len(v.rendered) :
                               \E d \in 1..v.days : v.rendered[k].day = Str(DAYS[d])}}

(***************************************************************************)
(* Bounds and inputs                                                       *)
(***************************************************************************)
\* The longest document the model lets grow.
MaxEntries == 2
\* The import handlers that may wait for their file at the same time.
MaxPending == 2
\* The ids uid() hands out.
MaxUid == 2

T2300 == <<"2", "3", ":", "0", "0">>
T0100 == <<"0", "1", ":", "0", "0">>

Form(employee, day, timeIn, timeOut, notes) ==
  [employee |-> employee, day |-> day, timeIn |-> timeIn, timeOut |-> timeOut,
   notes |-> notes]

\* What the user types into the form: a complete entry whose name and
\* notes need trimming, and one whose name is blank.  (An empty name and a
\* missing time are in the form as the page loads and after a submit.)
TypedForms ==
  { Form(<<" ", "A">>, Monday, T2300, T0100, <<"n", " ">>),
    Form(<<" ">>, Monday, T2300, T0100, <<>>) }

\* The wall clock, hours and minutes, when the "now" button of the time-in
\* field and when that of the time-out field is pressed.
ClockIn == {<<23, 0>>}
ClockOut == {<<1, 0>>}

\* new Date().toISOString(), a timestamp no computation reads.
NowIso == <<"T">>

\* uid(): a fresh identifier, the n-th one handed out.
uid(n) == <<"u">> \o NatString(n)

\* An id no entry carries.
AbsentId == Str(<<"z">>)

\* The entries of the files the user imports: a complete one, one without
\* id, notes and createdAt, one of no weekday, one whose employee is the
\* empty array, one without a time out, and one whose time in is the number
\* 1e999.
RawGood ==
  <<Pair("id", Str(<<"f">>)), Pair("employee", Str(<<"A">>)),
    Pair("day", Str(Monday)), Pair("timeIn", Str(T2300)), Pair("timeOut", Str(T0100)),
    Pair("notes", Str(<<"n">>)), Pair("createdAt", Str(<<"T">>))>>
RawBare ==
  <<Pair("employee", Str(<<"A">>)), Pair("day", Str(Monday)),
    Pair("timeIn", Str(T2300)), Pair("timeOut", Str(T0100))>>
RawFunday ==
  <<Pair("id", Str(<<"g">>)), Pair("employee", Str(<<"A">>)),
    Pair("day", Str(<<"F", "u", "n", "d", "a", "y">>)), Pair("timeIn", Str(T2300)),
    Pair("timeOut", Str(T0100))>>
RawArrayName ==
  <<Pair("id", Str(<<"h">>)), Pair("employee", EmptyArray),
    Pair("day", Str(Monday)), Pair("timeIn", Str(T2300)), Pair("timeOut", Str(T0100))>>
RawNoTimeOut ==
  <<Pair("id", Str(<<"i">>)), Pair("employee", Str(<<"A">>)),
    Pair("day", Str(Monday)), Pair("timeIn", Str(T2300)), Pair("timeOut", Str(<<>>))>>
RawHugeTime ==
  <<Pair("id", Str(<<"j">>)), Pair("employee", Str(<<"A">>)),
    Pair("day", Str(Tuesday)), Pair("timeIn", Num(<<"1", "e", "9", "9", "9">>)),
    Pair("timeOut", Str(T0100))>>

\* The files offered to the import, besides an export of the document: one
\* that cannot be read, one that is no JSON, null, an object without
\* entries, one whose entries is a string, and timesheets.
FixedFiles ==
  { Text("unreadable", <<>>), Text("garbage", <<>>), Text("null", <<>>),
    Text("noentries", <<>>), Text("notarray", <<>>), Text("doc", <<>>),
    Text("doc", <<RawFunday, RawGood, RawNoTimeOut, RawBare>>),
    Text("doc", <<RawArrayName>>), Text("doc", <<RawHugeTime>>) }

\* JSON.stringify(state, null, 2), the export: the same JSON as the
\* snapshot, laid out over several lines.
Export(st) == Stringify(st)

ImportFiles(st) == FixedFiles \cup {Export(st)}

\* What localStorage holds when the page loads: nothing, something that is
\* no JSON, JSON without an entries array, or a snapshot an earlier session
\* saved.
StoredEntry == Entry(Str(<<"u", "0">>), Str(<<"A">>), Str(Monday), Str(T2300),
                     Str(T0100), Str(<<"n">>), Str(<<"T">>))

InitialStorage ==
  { Text("none", <<>>), Text("garbage", <<>>), Text("null", <<>>),
    Text("noentries", <<>>), Text("notarray", <<>>),
    Stringify(EmptyState), Stringify([entries |-> <<StoredEntry>>]) }

(***************************************************************************)
(* The dialogs.  last is the handler that ran last and what it showed:     *)
(* the alert, the confirm with its answer, for an import the count its     *)
(* confirm reported and, when it committed, whether the document had       *)
(* changed while the handler waited for the file's text, and for an edit   *)
(* the id it was called with.                                              *)
(***************************************************************************)
Event(op, alert, confirm, ok, count, id, over) ==
  [op |-> op, alert |-> alert, confirm |-> confirm, ok |-> ok, count |-> count,
   id |-> id, over |-> over]

Quiet(op) == Event(op, "", "", FALSE, 0, Undef, FALSE)
Alert(op, msg) == Event(op, msg, "", FALSE, 0, Undef, FALSE)
Confirm(op, question, ok) == Event(op, "", question, ok, 0, Undef, FALSE)

\* The form as the page shows it first: empty fields, the first day chosen.
EmptyForm == Form(<<>>, Monday, <<>>, <<>>, <<>>)

\* The import handlers waiting for their file's text: those that have seen
\* no change of the document since they began to wait, and those that have.
NonePending == [clean |-> 0, overtaken |-> 0]

Waiting(p) == p.clean + p.overtaken

\* The waiting handlers after a handler has left the document as new.
Overtaken(p, old, new) ==
  IF new = old THEN p ELSE [clean |-> 0, overtaken |-> p.clean + p.overtaken]

IdleCalc == [phase |-> "idle"]

(***************************************************************************)
(* The store's operations                                                  *)
(***************************************************************************)
\* addEntry's push: the new entry, appended.
addEntry(st, f, id) ==
  [entries |-> Append(st.entries,
     Entry(Str(id), Str(Trim(f.employee)), Str(f.day), Str(f.timeIn), Str(f.timeOut),
           Str(Trim(f.notes)), Str(NowIso)))]

\* The import's filter: x && DAYS.includes(x.day) && x.employee && x.timeIn
\* && x.timeOut
Keeps(x) ==
  DaysIncludes(x.day) /\ Truthy(x.employee) /\ Truthy(x.timeIn) /\ Truthy(x.timeOut)

\* The import's map, on one entry that passed the filter; n uids are out.
Sanitize(x, n) ==
  Entry(OrElse(x.id, Str(uid(n + 1))), String(x.employee), x.day, x.timeIn, x.timeOut,
        IF Truthy(x.notes) THEN String(x.notes) ELSE Str(<<>>),
        OrElse(x.createdAt, Str(NowIso)))

RECURSIVE SanitizeAll(_, _)
SanitizeAll(xs, n) ==
  IF xs = <<>> THEN <<>>
  ELSE <<Sanitize(Head(xs), n)>>
       \o SanitizeAll(Tail(xs), IF Truthy(Head(xs).id) THEN n ELSE n + 1)

\* cleaned = parsed.entries.filter(...).map(...)
Cleaned(xs, n) == SanitizeAll(SelectSeq(xs, Keeps), n)

\* The calls of uid() the map made for cleaned, n uids being out before:
\* one for each entry that carries one of the next ids.
UidsDrawn(cleaned, n) ==
  Cardinality({i \in 1..Len(cleaned) :
                 \E k \in 1..Len(cleaned) : cleaned[i].id = Str(uid(n + k))})

\* A merge that skips the imported entries whose id the document has.
importMergeNewIds(st, cleaned) ==
  [entries |-> st.entries
               \o SelectSeq(cleaned, LAMBDA c : \A i \in 1..Len(st.entries) :
                                                  st.entries[i].id # c.id)]

\* A merge that appends the first entry of the batch only.
importMergeFirst(st, cleaned) ==
  [entries |-> st.entries \o (IF cleaned = <<>> THEN <<>> ELSE <<Head(cleaned)>>)]

\* state.entries = state.entries.concat(cleaned)
importMerge(st, cleaned) == [entries |-> st.entries \o cleaned]

\* The fields editEntry writes into the form.
Draft(e) ==
  Form(String(e.employee).v, String(e.day).v, String(e.timeIn).v, String(e.timeOut).v,
       String(OrElse(e.notes, Str(<<>>))).v)

\* nowAsTimeInput()
nowAsTimeInput(clock) == pad2(clock[1]) \o <<":">> \o pad2(clock[2])

Init ==
  /\ storage \in InitialStorage
  /\ state = loadState(storage)
  /\ form = EmptyForm
  /\ pending = NonePending
  /\ last = Quiet("load")
  /\ view = render(loadState(storage), [weeklyOf |-> <<>>])
  /\ uidCount = 0
  /\ calc = IdleCalc

\* The user types into the form.
Fill ==
  /\ \E f \in TypedForms : form' = f
  /\ last' = Quiet("input")
  /\ UNCHANGED <<state, storage, pending, view, uidCount, calc>>

\* The form's submit handler.
Submit ==
  /\ IF Trim(form.employee) = <<>>
     THEN /\ last' = Alert("submit", "Please enter an employee name.")
          /\ UNCHANGED <<state, storage, form, view, uidCount, pending>>
     ELSE IF form.timeIn = <<>> \/ form.timeOut = <<>>
     THEN /\ last' = Alert("submit", "Please enter time in and time out.")
          /\ UNCHANGED <<state, storage, form, view, uidCount, pending>>
     ELSE /\ Len(state.entries) < MaxEntries
          /\ uidCount < MaxUid
          /\ state' = addEntry(state, form, uid(uidCount + 1))
          /\ uidCount' = uidCount + 1
          /\ storage' = saveState(state')
          /\ view' = render(state', view)
          /\ form' = IF RenderThrows(state'.entries) THEN form
                     ELSE [form EXCEPT !.timeIn = <<>>, !.timeOut = <<>>, !.notes = <<>>]
          /\ pending' = Overtaken(pending, state, state')
          /\ last' = Quiet("submit")
  /\ UNCHANGED calc

\* deleteEntry(id), from a row's delete button.
Delete ==
  /\ \E id \in RenderedIds(view) \cup {AbsentId}, ok \in BOOLEAN :
       /\ last' = Confirm("delete", "Delete this entry?", ok)
       /\ IF ok
          THEN /\ state' = [entries |-> RemoveId(state.entries, id)]
               /\ storage' = saveState(state')
               /\ view' = render(state', view)
               /\ pending' = Overtaken(pending, state, state')
          ELSE UNCHANGED <<state, storage, view, pending>>
  /\ UNCHANGED <<form, uidCount, calc>>

\* editEntry(id), from a row's edit button.
Edit ==
  /\ \E id \in RenderedIds(view) \cup {AbsentId} :
       LET k == FindId(state.entries, id)
       IN /\ IF k = 0
             THEN UNCHANGED <<state, storage, form, view, pending>>
             ELSE /\ form' = Draft(state.entries[k])
                  /\ state' = [entries |-> RemoveId(state.entries, id)]
                  /\ storage' = saveState(state')
                  /\ view' = render(state', view)
                  /\ pending' = Overtaken(pending, state, state')
          /\ last' = [Quiet("edit") EXCEPT !.id = id]
  /\ UNCHANGED <<uidCount, calc>>

\* The clear button.
Clear ==
  /\ \E ok \in BOOLEAN :
       /\ last' = Confirm("clear", "This will delete ALL saved entries from this device. Continue?", ok)
       /\ IF ok
          THEN /\ state' = EmptyState
               /\ storage' = saveState(state')
               /\ view' = render(state', view)
               /\ pending' = Overtaken(pending, state, state')
          ELSE UNCHANGED <<state, storage, view, pending>>
  /\ UNCHANGED <<form, uidCount, calc>>

\* The "now" button of the time-in field.
QuickNowIn ==
  /\ \E clock \in ClockIn : form' = [form EXCEPT !.timeIn = nowAsTimeInput(clock)]
  /\ last' = Quiet("input")
  /\ UNCHANGED <<state, storage, pending, view, uidCount, calc>>

\* The "now" button of the time-out field.
QuickNowOut ==
  /\ \E clock \in ClockOut : form' = [form EXCEPT !.timeOut = nowAsTimeInput(clock)]
  /\ last' = Quiet("input")
  /\ UNCHANGED <<state, storage, pending, view, uidCount, calc>>

\* The import's change handler, up to its await: with a file chosen it
\* suspends until the file's text is there.
ImportStart ==
  /\ \E chosen \in BOOLEAN :
       IF chosen
       THEN /\ Waiting(pending) < MaxPending
            /\ pending' = [pending EXCEPT !.clean = @ + 1]
       ELSE UNCHANGED pending
  /\ last' = Quiet("importStart")
  /\ UNCHANGED <<state, storage, form, view, uidCount, calc>>

\* The rest of the import's handler, once the file's text is there: one of
\* the waiting handlers goes on, with the document as it is now.
ImportResume ==
  /\ \E over \in BOOLEAN, file \in ImportFiles(state) :
       LET rest == IF over THEN [pending EXCEPT !.overtaken = @ - 1]
                   ELSE [pending EXCEPT !.clean = @ - 1]
           import(alert, confirm, ok, count) ==
             Event("import", alert, confirm, ok, count, Undef, ok /\ over)
       IN /\ IF over THEN pending.overtaken > 0 ELSE pending.clean > 0
          /\ IF file.kind = "unreadable" \/ ParseThrows(file) \/ EntriesThrows(file)
             THEN /\ last' = import("Import failed. Make sure it's a valid JSON file.",
                                    "", FALSE, 0)
                  /\ pending' = rest
                  /\ UNCHANGED <<state, storage, view, uidCount>>
             ELSE IF NoEntriesArray(file)
             THEN /\ last' = import("That file doesn't look like a timesheet export.",
                                    "", FALSE, 0)
                  /\ pending' = rest
                  /\ UNCHANGED <<state, storage, view, uidCount>>
             ELSE \E cleaned \in {Cleaned(ParsedEntries(file), uidCount)} :
                     /\ uidCount + UidsDrawn(cleaned, uidCount) <= MaxUid
                     /\ uidCount' = uidCount + UidsDrawn(cleaned, uidCount)
                     /\ \E ok \in BOOLEAN :
                          IF ok
                          THEN /\ Len(state.entries) + Len(cleaned) <= MaxEntries
                               /\ state' = importMerge(state, cleaned)
                               /\ storage' = saveState(state')
                               /\ view' = render(state', view)
                               /\ pending' = Overtaken(rest, state, state')
                               /\ last' = import(IF RenderThrows(state'.entries)
                                                 THEN "Import failed. Make sure it's a valid JSON file."
                                                 ELSE "",
                                                 "Import entries into this device?", TRUE,
                                                 Len(cleaned))
                          ELSE /\ last' = import("", "Import entries into this device?",
                                                 FALSE, Len(cleaned))
                               /\ pending' = rest
                               /\ UNCHANGED <<state, storage, view>>
  /\ UNCHANGED <<form, calc>>

Next ==
  \/ Fill
  \/ Submit
  \/ Delete
  \/ Edit
  \/ Clear
  \/ QuickNowIn
  \/ QuickNowOut
  \/ ImportStart
  \/ ImportResume

Spec == Init /\ [][Next]_vars

(***************************************************************************)
(* The calculator on its own: computeHours on every pair of time values a  *)
(* time input can hold, hours 0..23 and a sample of the minutes.           *)
(***************************************************************************)
HoursOfDay == 0..(24 - 1)
MinuteSamples == {0, 1, 15, 30, 45, 60 - 1}

\* The value of a time input: "HH:MM".
TimeValue(h, m) == nowAsTimeInput(<<h, m>>)

Asked(inH, inM, outH, outM) ==
  [phase |-> "asked", inH |-> inH, inM |-> inM, outH |-> outH, outM |-> outM,
   timeIn |-> TimeValue(inH, inM), timeOut |-> TimeValue(outH, outM)]

Computed(c) ==
  [phase |-> "computed", inH |-> c.inH, inM |-> c.inM, outH |-> c.outH, outM |-> c.outM,
   timeIn |-> c.timeIn, timeOut |-> c.timeOut,
   diff |-> computeDiff(c.timeIn, c.timeOut),
   hours |-> computeHours(c.timeIn, c.timeOut),
   shown |-> hoursToFixed(computeHours(c.timeIn, c.timeOut))]

BlankView == [rendered |-> <<>>, days |-> 0, weeklyOf |-> <<>>]

InitCalc ==
  /\ calc \in {Asked(inH, inM, outH, outM) :
                 inH \in HoursOfDay, inM \in MinuteSamples,
                 outH \in HoursOfDay, outM \in MinuteSamples}
  /\ storage = Text("none", <<>>)
  /\ state = EmptyState
  /\ form = EmptyForm
  /\ pending = NonePending
  /\ last = Quiet("load")
  /\ view = BlankView
  /\ uidCount = 0

\* computeHours(timeIn, timeOut), and the hours cell render() makes of it.
ComputeHours ==
  /\ calc.phase = "asked"
  /\ calc' = Computed(calc)
  /\ UNCHANGED <<state, storage, form, pending, last, view, uidCount>>

NextCalc == ComputeHours

SpecCalc == InitCalc /\ [][NextCalc]_vars

(***************************************************************************)
(* The totals of the page as it loads: the snapshot of an earlier session  *)
(* holds entries of 6, 12 and 18 minutes on Monday and of one minute on    *)
(* Tuesday, in any number up to MaxStored and in any order.                *)
(***************************************************************************)
MaxStored == 3

T0000 == TimeValue(0, 0)

\* An entry as addEntry stores it, of the given day and length in minutes.
Stored(n, day, minutes) ==
  Entry(Str(uid(n)), Str(<<"A">>), Str(day), Str(T0000), Str(TimeValue(0, minutes)),
        Str(<<>>), Str(NowIso))

Shapes == {<<Monday, 6>>, <<Monday, 12>>, <<Monday, 18>>, <<Tuesday, 1>>}

StoredDocs ==
  UNION {{[entries |-> [i \in 1..n |-> Stored(i, pick[i][1], pick[i][2])]] :
            pick \in [1..n -> Shapes]} : n \in 0..MaxStored}

\* dayTotal of each day of DAYS and weekly, as render() computes them.
Totals(entries) ==
  [phase |-> "totals",
   perDay |-> [i \in 1..Len(DAYS) |-> DayTotal(entries, DAYS[i])],
   weekly |-> WeeklyTotal(entries)]

InitTotals ==
  /\ storage \in {saveState(doc) : doc \in StoredDocs}
  /\ state = loadState(storage)
  /\ form = EmptyForm
  /\ pending = NonePending
  /\ last = Quiet("load")
  /\ view = BlankView
  /\ uidCount = 0
  /\ calc = [phase |-> "loaded"]

\* The render() that ends the script.
FirstRender ==
  /\ calc.phase = "loaded"
  /\ view' = render(state, view)
  /\ calc' = Totals(state.entries)
  /\ UNCHANGED <<state, storage, form, pending, last, uidCount>>

NextTotals == FirstRender

SpecTotals == InitTotals /\ [][NextTotals]_vars

(***************************************************************************)
(* Properties                                                              *)
(***************************************************************************)
\* A committed import took the step: its confirm was answered with OK.
ImportCommitted == last'.op = "import" /\ last'.ok

\* Some file offered to the import has the filtered batch batch.
IsBatch(batch) ==
  \E file \in ImportFiles(state) :
    /\ file.kind = "doc"
    /\ batch = Cleaned(ParsedEntries(file), uidCount)

\* The entries of the document after the step that follow those it had
\* before.
Appended ==
  SubSeq(state'.entries, Len(state.entries) + 1, Len(state'.entries))

HasDuplicateId(entries) ==
  \E i, j \in 1..Len(entries) : i < j /\ entries[i].id = entries[j].id

\* A field that holds something: not the empty string, null or undefined.
NonEmpty(x) == x # Str(<<>>) /\ x # Null /\ x # Undef

\* C1: in every reachable state every entry of the document has a
\* non-empty employee, a non-empty timeIn and a non-empty timeOut, and its
\* day is one of the seven labels Monday..Sunday.
C1_EntriesWellFormed ==
  \A i \in 1..Len(state.entries) :
    LET e == state.entries[i]
    IN /\ NonEmpty(e.employee)
       /\ NonEmpty(e.timeIn)
       /\ NonEmpty(e.timeOut)
       /\ \E d \in 1..Len(DAYS) : e.day = Str(DAYS[d])

\* C2: a committed import is strictly additive: the entries the document
\* had before are all still there, unmodified and in the same order, as a
\* prefix, and the whole filtered batch of the file follows them, as many
\* entries as the confirm reported, also when an imported entry has the id
\* of an existing one.
C2_ImportAdditive ==
  [][ImportCommitted =>
       /\ Len(state'.entries) = Len(state.entries) + last'.count
       /\ SubSeq(state'.entries, 1, Len(state.entries)) = state.entries
       /\ IsBatch(Appended)]_vars

\* An import has committed onto a document that had entries, and an
\* imported entry has the id of an entry that was there.
C2_Witness ==
  /\ last.op = "import" /\ last.ok
  /\ last.count > 0
  /\ Len(state.entries) > last.count
  /\ \E i \in 1..(Len(state.entries) - last.count),
        j \in (Len(state.entries) - last.count + 1)..Len(state.entries) :
       state.entries[i].id = state.entries[j].id

\* A name is blank: nothing is left of it after trimming.
Blank(s) == \A i \in 1..Len(s) : s[i] = " "

InvalidForm(f) == Blank(f.employee) \/ f.timeIn = <<>> \/ f.timeOut = <<>>

\* C3: a submission whose employee name is empty after trimming, or whose
\* timeIn or timeOut is missing, shows an alert and leaves the document
\* and the persisted snapshot as they were.
C3_InvalidSubmitRejected ==
  [][(last'.op = "submit" /\ InvalidForm(form)) =>
       /\ last'.alert # ""
       /\ state' = state
       /\ storage' = storage]_vars

\* A form whose name is only blanks has been submitted to a document that
\* holds an entry, and the alert for the name was shown.
C3_Witness ==
  /\ last.op = "submit"
  /\ last.alert = "Please enter an employee name."
  /\ form.employee # <<>> /\ Blank(form.employee)
  /\ form.timeIn # <<>> /\ form.timeOut # <<>>
  /\ Len(state.entries) > 0

C5_RoundTrip == loadState(saveState(state)) = state

\* C6: an import is all-or-nothing.  When it commits, the whole filtered
\* batch of a file that parsed and holds an entries array is appended, as
\* many entries as the confirm reported, and the snapshot is saved; in
\* every other case (the file does not parse, it has no entries array,
\* the confirm is declined) the document and the snapshot are unchanged.
C6_ImportAllOrNothing ==
  [][last'.op = "import" =>
       IF last'.ok
       THEN /\ last'.confirm # ""
            /\ Len(state'.entries) >= Len(state.entries)
            /\ IsBatch(Appended)
            /\ Len(Appended) = last'.count
            /\ storage' = saveState(state')
       ELSE /\ state' = state
            /\ storage' = storage
            /\ last'.alert # "" \/ last'.confirm # ""]_vars

\* An import whose confirm reported one entry or more was declined, on a
\* document that holds an entry.
C6_Witness ==
  /\ last.op = "import"
  /\ ~last.ok
  /\ last.confirm # ""
  /\ last.count > 0
  /\ Len(state.entries) > 0

\* C7: in every reachable state no two entries of the document have the
\* same id.
C7_UniqueIds == ~HasDuplicateId(state.entries)

\* C8: for valid HH:MM values the duration in minutes is outMinutes -
\* inMinutes when timeOut >= timeIn and outMinutes - inMinutes + 1440
\* otherwise; it is in 0..1439, "23:00" -> "01:00" gives 120 minutes, two
\* hours, and equal times give 0.
C8_Duration ==
  calc.phase = "computed" =>
    LET inMinutes == calc.inH * 60 + calc.inM
        outMinutes == calc.outH * 60 + calc.outM
    IN /\ calc.diff = IF outMinutes >= inMinutes THEN outMinutes - inMinutes
                      ELSE outMinutes - inMinutes + 1440
       /\ calc.diff \in 0..1439
       /\ (calc.timeIn = T2300 /\ calc.timeOut = T0100) =>
            /\ calc.diff = 120
            /\ calc.hours = FromInt(2)
            /\ calc.shown = <<"2", ".", "0", "0">>
       /\ calc.timeIn = calc.timeOut => calc.diff = 0 /\ calc.hours = FZero

\* The hours from 23:00 to 01:00 have been computed.
C8_Witness ==
  /\ calc.phase = "computed"
  /\ calc.timeIn = T2300 /\ calc.timeOut = T0100
  /\ calc.diff = 120

\* The orders the entries es can be in.
Permuted(es) ==
  {[i \in 1..Len(es) |-> es[p[i]]] :
     p \in {q \in [1..Len(es) -> 1..Len(es)] :
              \A i, j \in 1..Len(es) : i # j => q[i] # q[j]}}

RECURSIVE SumFrom(_, _, _)
SumFrom(perDay, i, acc) ==
  IF i > Len(perDay) THEN acc ELSE SumFrom(perDay, i + 1, FAdd(acc, perDay[i]))

\* C9: permuting the entries changes neither any of the seven per-day
\* totals nor the weekly total, and the weekly total is the sum of the
\* seven per-day totals.
C9_OrderIndependent ==
  calc.phase = "totals" =>
    /\ \A es \in Permuted(state.entries) :
         /\ Totals(es).perDay = calc.perDay
         /\ Totals(es).weekly = calc.weekly
    /\ calc.weekly = SumFrom(calc.perDay, 1, FZero)

\* C10: when an import commits after the document changed while its
\* handler waited for the file, nothing of the document is lost or undone:
\* the document is the document as it stood immediately before the commit
\* followed by the import's filtered batch, and the persisted snapshot
\* equals the in-memory document, that is, it loads back as that document.
C10_NoLostUpdate ==
  [][(ImportCommitted /\ last'.over) =>
       /\ Len(state'.entries) >= Len(state.entries)
       /\ \A i \in 1..Len(state.entries) : state'.entries[i] = state.entries[i]
       /\ IsBatch(Appended)
       /\ loadState(storage') = state']_vars

\* What holds of a commit after interleaved handlers: it appends the batch
\* to the document as the commit finds it, and saves the result.
CommitOnCurrent ==
  [][(ImportCommitted /\ last'.over) =>
       /\ Len(state'.entries) >= Len(state.entries)
       /\ \A i \in 1..Len(state.entries) : state'.entries[i] = state.entries[i]
       /\ IsBatch(Appended)
       /\ storage' = saveState(state')]_vars

\* An import has committed a batch after the document changed while its
\* handler waited, and another import is still waiting.
CommitOnCurrentWitness ==
  /\ last.op = "import" /\ last.ok /\ last.over
  /\ last.count > 0
  /\ Len(state.entries) > last.count
  /\ Waiting(pending) > 0

=============================================================================
